---- MODULE Spec2Model ----
(***************************************************************************)
(* Deduplication cache and fine-decision pipeline of Void-Tax.             *)
(*                                                                         *)
(*   app/services/plate_cache.py    PlateCache, CacheEntry                 *)
(*   app/services/fine_service.py   FineService                            *)
(*   app/services/validation_api.py ValidationAPIClient                    *)
(*   app/routers/scan.py            scan_frame, _process_plate, cache/...  *)
(*   app/routers/fines.py           mark_fine_paid                         *)
(*                                                                         *)
(* Time is counted in whole minutes (the unit of cache_cooldown_min).      *)
(* A confidence is counted in hundredths (0.9 is 90).  A plate text is a   *)
(* sequence of one-character strings.  An Optional value is <<>> for None  *)
(* and <<x>> for x.                                                        *)
(*                                                                         *)
(* Scan requests are coroutines on one event loop: the code between two    *)
(* awaits that really suspend (the Validator's HTTP call, the ledger's     *)
(* commit, the notification's HTTP call) runs without interruption, and    *)
(* one action of the model is one such stretch.                            *)
(***************************************************************************)
EXTENDS Integers, Sequences, FiniteSets, TLC

VARIABLES
    cooldown,        \* PlateCache._cooldown, minutes
    cache,           \* PlateCache._cache: normalized key -> CacheEntry
    hit_count,       \* PlateCache._hit_count
    miss_count,      \* PlateCache._miss_count
    lookups,         \* get_cached_result calls completed since construction
                     \* or the last clear()
    road_tax_fine,   \* FineService._road_tax_fine
    insurance_fine,  \* FineService._insurance_fine
    fines,           \* table "fines": row i has id i
    logs,            \* table "scan_logs"
    now,             \* datetime.now(), minutes
    pc,              \* per request: where the coroutine is suspended
    frame,           \* per request: the detections of its frame
    results,         \* per request: the ScanResults collected so far
    vs,              \* per request: vehicle_status of the plate in progress
    pend,            \* per request: the rows added to the open session
    obs,             \* per request: what the plate in progress has done
    scans,           \* number of detections handed to the pipeline so far
    maint,           \* number of maintenance calls served so far
    call,            \* a direct caller of the PlateCache: its plate text
                     \* and what the cache's methods returned to it
    last             \* the step just taken: the endpoint or plate that
                     \* completed in it, what it returned, what it did

vars == <<cooldown, cache, hit_count, miss_count, lookups, road_tax_fine,
          insurance_fine, fines, logs, now, pc, frame, results, vs, pend,
          obs, scans, maint, call, last>>

----------------------------------------------------------------------------
(* Bounds of the model *)

MaxScans == 2
MaxFrameLen == 2
MaxTime == 2
MaxMaint == 1
MaxTextLen == 2
MaxPays == 2
MaxSeqScans == 3

\* Scan requests in flight at the same time
Procs == { 1, 2 }

None == <<>>
Some(x) == <<x>>

----------------------------------------------------------------------------
(* Configuration: app/config.py *)

CACHE_COOLDOWN_MIN == 5
ROAD_TAX_FINE_AMOUNT == 150
INSURANCE_FINE_AMOUNT == 300
MIN_FINE_CONFIDENCE == 90

\* Values the two fine amounts take from the environment (.env).
FineAmounts == { <<ROAD_TAX_FINE_AMOUNT, INSURANCE_FINE_AMOUNT>>,
                 <<0, INSURANCE_FINE_AMOUNT>> }

\* Argument PlateCache is constructed with: None, or a number of minutes.
CooldownArgs == { Some(1) }

\* Arguments of PlateCache(cooldown_minutes) in general: omitted, or an
\* integer n >= 0
CtorArgs == { None, Some(0), Some(1), Some(2) }

----------------------------------------------------------------------------
(* Plate texts and the normalizer *)

UpperOf == ("a" :> "A") @@ ("b" :> "B") @@ ("x" :> "X")

\* str.upper(), one character
upper_char(c) == IF c \in DOMAIN UpperOf THEN UpperOf[c] ELSE c

\* str.upper()
upper(s) == [i \in 1..Len(s) |-> upper_char(s[i])]

\* str.replace(ch, "")
replace(s, ch) == SelectSeq(s, LAMBDA c : c # ch)

\* _normalize_plate without the upper()
normalize_plate_cased(plate_number) ==
    replace(replace(plate_number, " "), "-")

\* PlateCache._normalize_plate
normalize_plate(plate_number) ==
    replace(replace(upper(plate_number), " "), "-")

\* The characters of the plate texts handed to the cache directly: a
\* letter in both cases, a digit, the two separators and a punctuation mark
Chars == { "a", "A", "1", " ", "-", "." }

\* What the detector reads (OCRService._clean_plate_text leaves uppercase
\* letters, digits and single spaces): two spellings of one plate, and
\* another plate.
RawPlates == { <<"A", "B", " ", "1">>, <<"A", "B", "1">>, <<"X", "9">> }

\* The readings of the detector: (plate_number, confidence)
Detection(plate_number, confidence) ==
    [plate_number |-> plate_number, confidence |-> confidence]

Detections ==
    { Detection(<<"A", "B", " ", "1">>, 90),
      Detection(<<"A", "B", "1">>, 60),
      Detection(<<"X", "9">>, 90) }

RECURSIVE SeqsUpTo(_, _)
SeqsUpTo(S, n) ==
    IF n = 0 THEN { <<>> }
    ELSE LET shorter == SeqsUpTo(S, n - 1)
         IN  shorter \cup { Append(s, x) : s \in { t \in shorter : Len(t) = n - 1 }, x \in S }

Frames == SeqsUpTo(Detections, MaxFrameLen)

\* The plate texts (str) a caller can hand to the PlateCache
Texts == SeqsUpTo(Chars, MaxTextLen)

----------------------------------------------------------------------------
(* app/models/schemas.py *)

VehicleStatus(plate_number, road_tax_valid, insurance_valid) ==
    [plate_number |-> plate_number,
     road_tax_valid |-> road_tax_valid,
     insurance_valid |-> insurance_valid]

\* is_compliant with `or` for `and`
is_compliant_either(status) == status.road_tax_valid \/ status.insurance_valid

\* VehicleStatus.is_compliant
is_compliant(status) == status.road_tax_valid /\ status.insurance_valid

compliance_status(status) ==
    IF status.road_tax_valid /\ status.insurance_valid THEN "compliant"
    ELSE IF ~status.road_tax_valid /\ ~status.insurance_valid THEN "both_expired"
    ELSE IF ~status.road_tax_valid THEN "tax_expired"
    ELSE "insurance_expired"

ScanResult(plate_number, confidence, cached, vehicle_status, fine_issued, fine_amount, error) ==
    [plate_number |-> plate_number, confidence |-> confidence,
     cached |-> cached, vehicle_status |-> vehicle_status,
     fine_issued |-> fine_issued, fine_amount |-> fine_amount,
     error |-> error]

ScanFrameResponse(success, plates_detected, rs) ==
    [success |-> success, plates_detected |-> plates_detected, results |-> rs]

CacheStats(total, active, expired, hits, misses, hit_rate) ==
    [total_entries |-> total, active_entries |-> active,
     expired_entries |-> expired, hit_count |-> hits, miss_count |-> misses,
     hit_rate |-> hit_rate]

----------------------------------------------------------------------------
(* app/services/plate_cache.py *)

CacheEntry(plate_number, result, timestamp) ==
    [plate_number |-> plate_number, result |-> result, timestamp |-> timestamp]

\* is_expired with `>=` for `>`: an entry would expire at the very end of
\* its window instead of just after it.
is_expired_inclusive(entry, cd, t) == t - entry.timestamp >= cd

\* CacheEntry.is_expired, with datetime.now() = t
is_expired(entry, cd, t) == t - entry.timestamp > cd

\* PlateCache.__init__: `cooldown_minutes or settings.cache_cooldown_min`
PlateCacheInit(cooldown_minutes) ==
    IF cooldown_minutes # None /\ cooldown_minutes[1] # 0
    THEN cooldown_minutes[1]
    ELSE CACHE_COOLDOWN_MIN

\* del self._cache[key]
Del(c, key) == [k \in (DOMAIN c) \ { key } |-> c[k]]

\* self._cache[key] = entry
Put(c, key, entry) == [k \in (DOMAIN c) \cup { key } |-> IF k = key THEN entry ELSE c[k]]

\* get_cached_result answering a miss without counting it
get_cached_result_uncounted(plate_number) ==
    LET normalized == normalize_plate(plate_number)
    IN  IF normalized \in DOMAIN cache /\ ~is_expired(cache[normalized], cooldown, now)
        THEN [cache |-> cache, hit_count |-> hit_count + 1,
              miss_count |-> miss_count, ret |-> Some(cache[normalized].result)]
        ELSE [cache |-> Del(cache, normalized), hit_count |-> hit_count,
              miss_count |-> miss_count, ret |-> None]

\* get_cached_result answering None on an expired entry but leaving the
\* entry in the map
get_cached_result_keeping(plate_number) ==
    LET normalized == normalize_plate(plate_number)
    IN  IF normalized \in DOMAIN cache /\ ~is_expired(cache[normalized], cooldown, now)
        THEN [cache |-> cache, hit_count |-> hit_count + 1,
              miss_count |-> miss_count, ret |-> Some(cache[normalized].result)]
        ELSE [cache |-> cache, hit_count |-> hit_count,
              miss_count |-> miss_count + 1, ret |-> None]

\* get_cached_result counting every call as a miss, a hit included
get_cached_result_all_missed(plate_number) ==
    LET normalized == normalize_plate(plate_number)
    IN  IF normalized \in DOMAIN cache /\ ~is_expired(cache[normalized], cooldown, now)
        THEN [cache |-> cache, hit_count |-> hit_count + 1,
              miss_count |-> miss_count + 1, ret |-> Some(cache[normalized].result)]
        ELSE [cache |-> Del(cache, normalized), hit_count |-> hit_count,
              miss_count |-> miss_count + 1, ret |-> None]

\* PlateCache.get_cached_result: the cache afterwards, the counters, the return
get_cached_result(plate_number) ==
    LET normalized == normalize_plate(plate_number)
    IN  IF normalized \in DOMAIN cache /\ ~is_expired(cache[normalized], cooldown, now)
        THEN [cache |-> cache, hit_count |-> hit_count + 1,
              miss_count |-> miss_count, ret |-> Some(cache[normalized].result)]
        ELSE [cache |-> Del(cache, normalized), hit_count |-> hit_count,
              miss_count |-> miss_count + 1, ret |-> None]

\* add_plate storing the entry under the plate as spelled, not normalized
add_plate_raw(plate_number, result) ==
    Put(cache, plate_number, CacheEntry(plate_number, result, now))

\* add_plate keeping only the statuses worth a fine: a compliant status is
\* not cached
add_plate_offenders(plate_number, result) ==
    LET normalized == normalize_plate(plate_number)
    IN  IF is_compliant(result)
        THEN cache
        ELSE Put(cache, normalized, CacheEntry(normalized, result, now))

\* PlateCache.add_plate: the cache afterwards
add_plate(plate_number, result) ==
    LET normalized == normalize_plate(plate_number)
    IN  Put(cache, normalized, CacheEntry(normalized, result, now))

\* cleanup_expired also removing the entries on the last minute of their
\* window
cleanup_expired_inclusive ==
    LET expired_keys == { k \in DOMAIN cache : now - cache[k].timestamp >= cooldown }
    IN  [cache |-> [k \in (DOMAIN cache) \ expired_keys |-> cache[k]],
         ret |-> Cardinality(expired_keys)]

\* PlateCache.cleanup_expired: the cache afterwards and the return
cleanup_expired ==
    LET expired_keys == { k \in DOMAIN cache : is_expired(cache[k], cooldown, now) }
    IN  [cache |-> [k \in (DOMAIN cache) \ expired_keys |-> cache[k]],
         ret |-> Cardinality(expired_keys)]

\* clear forgetting to reset the counters
clear_entries_only == [cache |-> <<>>, hit_count |-> hit_count, miss_count |-> miss_count]

\* PlateCache.clear: the cache and the counters afterwards
clear == [cache |-> <<>>, hit_count |-> 0, miss_count |-> 0]

\* HitRate reporting the share of misses
HitRate_of_misses(hits, total_requests) ==
    IF total_requests > 0 THEN <<total_requests - hits, total_requests>> ELSE <<0, 1>>

\* hits / total as the fraction <<hits, total>>; 0.0 is <<0, 1>>
HitRate(hits, total_requests) ==
    IF total_requests > 0 THEN <<hits, total_requests>> ELSE <<0, 1>>

\* get_stats reporting every entry as active
get_stats_all_active(c, h, m, t) ==
    LET total == Cardinality(DOMAIN c)
        expired == Cardinality({ k \in DOMAIN c : is_expired(c[k], cooldown, t) })
    IN  CacheStats(total, total, expired, h, m, HitRate(h, h + m))

\* PlateCache.get_stats on a cache c with counters h and m, at time t
get_stats(c, h, m, t) ==
    LET total == Cardinality(DOMAIN c)
        expired == Cardinality({ k \in DOMAIN c : is_expired(c[k], cooldown, t) })
    IN  CacheStats(total, total - expired, expired, h, m, HitRate(h, h + m))

----------------------------------------------------------------------------
(* app/services/validation_api.py *)

Ord == ("A" :> 65) @@ ("B" :> 66) @@ ("X" :> 88) @@ ("a" :> 97) @@ ("b" :> 98)
       @@ ("x" :> 120) @@ ("1" :> 49) @@ ("9" :> 57) @@ (" " :> 32) @@ ("-" :> 45)

RECURSIVE OrdSum(_)
OrdSum(s) == IF s = <<>> THEN 0 ELSE Ord[Head(s)] + OrdSum(Tail(s))

\* random.seed(seed); random.random() < 0.6; random.random() < 0.7, for the
\* seeds of RawPlates ("AB 1": 212, "AB1": 180, "X9": 145)
MockDraw == (212 :> <<TRUE, FALSE>>) @@ (180 :> <<TRUE, TRUE>>) @@ (145 :> <<FALSE, FALSE>>)

\* ValidationAPIClient._get_mock_status
get_mock_status(plate_number) ==
    LET seed == OrdSum(plate_number)
    IN  VehicleStatus(plate_number, MockDraw[seed][1], MockDraw[seed][2])

\* What the HTTP GET of check_vehicle can end in: a 200 with the two flags,
\* a 404, another status, or an httpx.RequestError (network error, timeout).
Responses ==
    [kind : { "200" }, road_tax_valid : BOOLEAN, insurance_valid : BOOLEAN]
    \cup [kind : { "404", "500", "RequestError" }, road_tax_valid : { TRUE }, insurance_valid : { TRUE }]

\* check_vehicle treating every status but 200 like the 404: no raise
check_vehicle_lenient(plate_number, response) ==
    IF response.kind = "200"
    THEN Some(VehicleStatus(plate_number, response.road_tax_valid, response.insurance_valid))
    ELSE IF response.kind = "RequestError"
    THEN Some(get_mock_status(plate_number))
    ELSE Some(VehicleStatus(plate_number, TRUE, TRUE))

\* ValidationAPIClient.check_vehicle: <<status>>, or <<>> when it raises
check_vehicle(plate_number, response) ==
    IF response.kind = "200"
    THEN Some(VehicleStatus(plate_number, response.road_tax_valid, response.insurance_valid))
    ELSE IF response.kind = "404"
    THEN Some(VehicleStatus(plate_number, TRUE, TRUE))
    ELSE IF response.kind = "RequestError"
    THEN Some(get_mock_status(plate_number))
    ELSE None

\* What the HTTP POST of notify_fine can end in
NotifyResponses == { "201", "500", "RequestError" }

\* ValidationAPIClient.notify_fine: the bool it returns
notify_fine(response) == response = "201"

----------------------------------------------------------------------------
(* app/services/fine_service.py *)

\* calculate_fine charging only the road tax amount when both are expired
calculate_fine_single(vehicle_status) ==
    LET status == compliance_status(vehicle_status)
    IN  IF status = "both_expired" THEN <<road_tax_fine, "both">>
        ELSE IF status = "tax_expired" THEN <<road_tax_fine, "road_tax">>
        ELSE IF status = "insurance_expired" THEN <<insurance_fine, "insurance">>
        ELSE <<0, "none">>

\* FineService.calculate_fine
calculate_fine(vehicle_status) ==
    LET status == compliance_status(vehicle_status)
    IN  IF status = "both_expired" THEN <<road_tax_fine + insurance_fine, "both">>
        ELSE IF status = "tax_expired" THEN <<road_tax_fine, "road_tax">>
        ELSE IF status = "insurance_expired" THEN <<insurance_fine, "insurance">>
        ELSE <<0, "none">>

\* Row of table "fines" (app/models/database.py); owner_name and owner_id are
\* copied from the Validator's answer and take part in no decision.
Fine(plate_number, fine_type, fine_amount, issued_at) ==
    [plate_number |-> plate_number, fine_type |-> fine_type,
     fine_amount |-> fine_amount, issued_at |-> issued_at,
     paid |-> FALSE, paid_at |-> None]

\* Row of table "scan_logs"
ScanLog(plate_number, scanned_at, confidence, vehicle_status, fine_issued, cached_result) ==
    [plate_number |-> plate_number, scanned_at |-> scanned_at,
     confidence |-> confidence,
     road_tax_valid |-> vehicle_status.road_tax_valid,
     insurance_valid |-> vehicle_status.insurance_valid,
     fine_issued |-> fine_issued, cached_result |-> cached_result]

\* issue_fine writing its scan log with fine_issued = False
issue_fine_rows_unflagged(vehicle_status, confidence) ==
    LET calc == calculate_fine(vehicle_status)
    IN  IF is_compliant(vehicle_status) THEN None
        ELSE IF calc[1] = 0 THEN None
        ELSE Some([fine |-> Fine(vehicle_status.plate_number, calc[2], calc[1], now),
                   scan_log |-> ScanLog(vehicle_status.plate_number, now, confidence,
                                        vehicle_status, FALSE, FALSE)])

\* FineService.issue_fine up to its commit: the rows added to the session,
\* or <<>> when it returns None before opening one.
issue_fine_rows(vehicle_status, confidence) ==
    LET calc == calculate_fine(vehicle_status)
    IN  IF is_compliant(vehicle_status) THEN None
        ELSE IF calc[1] = 0 THEN None
        ELSE Some([fine |-> Fine(vehicle_status.plate_number, calc[2], calc[1], now),
                   scan_log |-> ScanLog(vehicle_status.plate_number, now, confidence,
                                        vehicle_status, TRUE, FALSE)])

\* FineService.log_scan up to its commit: the row added to the session
log_scan_row(plate_number, confidence, vehicle_status, cached, fine_issued) ==
    ScanLog(plate_number, now, confidence, vehicle_status, fine_issued, cached)

\* FineService.get_fine_by_plate: the ids of the fines it returns (their
\* order, issued_at descending, is left out)
get_fine_by_plate(plate_number) ==
    LET normalized == replace(replace(upper(plate_number), " "), "-")
    IN  { i \in DOMAIN fines : fines[i].plate_number = normalized }

\* mark_fine_paid flipping the flag: a second call unpays the fine
mark_fine_paid_toggle(fine_id) ==
    IF fine_id \in DOMAIN fines
    THEN [fines |-> [fines EXCEPT ![fine_id].paid = ~@, ![fine_id].paid_at = Some(now)],
          ret |-> TRUE]
    ELSE [fines |-> fines, ret |-> FALSE]

\* FineService.mark_fine_paid: the table afterwards and the return
mark_fine_paid(fine_id) ==
    IF fine_id \in DOMAIN fines
    THEN [fines |-> [fines EXCEPT ![fine_id].paid = TRUE, ![fine_id].paid_at = Some(now)],
          ret |-> TRUE]
    ELSE [fines |-> fines, ret |-> FALSE]

----------------------------------------------------------------------------
(* State after construction of the global services *)

\* What _process_plate has done for a plate so far: whether its lookup hit
\* or removed an expired entry, the calls of check_vehicle and how the HTTP
\* GET ended, the status returned, whether add_plate ran, the rows it
\* committed to "fines" and "scan_logs", and how the HTTP POST of
\* notify_fine ended.
NoObs ==
    [hit |-> FALSE, evicted |-> FALSE, calls |-> 0, kind |-> "none",
     status |-> None, added |-> FALSE, fines |-> 0, logs |-> 0,
     notified |-> "none"]

\* The step just taken: `op` is what it did ("init": the construction, with
\* the argument of PlateCache; "plate": a _process_plate returned; "frame":
\* a response was returned; "lookup", "validated": a _process_plate went on
\* to its next await; an endpoint; "tick"), `ret` what was returned, `seen`
\* what the plate it worked on has done, and `looked` the detection whose
\* lookup ran in it.
Step(op, ret, seen, looked) ==
    [op |-> op, ret |-> ret, seen |-> seen, looked |-> looked]

\* No direct caller of the PlateCache
NoCall == [stage |-> "none", x |-> <<>>, key |-> None, again |-> None, y |-> None, ret |-> None]

\* The services as constructed, the cache by PlateCache(cooldown_minutes)
ConstructedWith(cooldown_minutes) ==
    /\ cooldown = PlateCacheInit(cooldown_minutes)
    /\ cache = <<>>
    /\ hit_count = 0
    /\ miss_count = 0
    /\ lookups = 0
    /\ \E a \in FineAmounts : road_tax_fine = a[1] /\ insurance_fine = a[2]
    /\ fines = <<>>
    /\ logs = <<>>
    /\ now = 0
    /\ pc = [p \in Procs |-> "idle"]
    /\ frame = [p \in Procs |-> <<>>]
    /\ results = [p \in Procs |-> <<>>]
    /\ vs = [p \in Procs |-> None]
    /\ pend = [p \in Procs |-> None]
    /\ obs = [p \in Procs |-> NoObs]
    /\ scans = 0
    /\ maint = 0
    /\ last = Step("init", Some([cooldown_minutes |-> cooldown_minutes]), NoObs, None)

\* The services as constructed at import
Constructed == \E arg \in CooldownArgs : ConstructedWith(arg)

Init == Constructed /\ call = NoCall

\* The cache constructed with any of CtorArgs
InitCtor == (\E arg \in CtorArgs : ConstructedWith(arg)) /\ call = NoCall

\* A caller is about to use the PlateCache with the plate text x
InitCache ==
    /\ Constructed
    /\ \E x \in Texts : call = [NoCall EXCEPT !.stage = "start", !.x = x]

----------------------------------------------------------------------------
(* app/routers/scan.py: scan_frame, scan_frame_base64, _process_plate *)

\* The detection _process_plate is working on for request p
Current(p) == frame[p][Len(results[p]) + 1]

\* Finish as it would be if _process_plate let the exception through: the
\* except of scan_frame answers for the whole frame.
Finish_abort(p, plates, rs, result, seen, looked) ==
    LET all == Append(rs, result)
    IN  /\ vs' = [vs EXCEPT ![p] = None]
        /\ pend' = [pend EXCEPT ![p] = None]
        /\ obs' = [obs EXCEPT ![p] = NoObs]
        /\ IF Len(all) = Len(plates) \/ result.error # None
           THEN /\ pc' = [pc EXCEPT ![p] = "idle"]
                /\ frame' = [frame EXCEPT ![p] = <<>>]
                /\ results' = [results EXCEPT ![p] = <<>>]
                /\ last' = Step("frame",
                                Some(IF result.error # None
                                     THEN ScanFrameResponse(FALSE, 0, <<>>)
                                     ELSE ScanFrameResponse(TRUE, Len(plates), all)),
                                seen, looked)
           ELSE /\ pc' = [pc EXCEPT ![p] = "lookup"]
                /\ frame' = [frame EXCEPT ![p] = plates]
                /\ results' = [results EXCEPT ![p] = all]
                /\ last' = Step("plate", Some(result), seen, looked)

\* _process_plate returns `result` for plate number Len(rs) + 1 of the
\* frame `plates`: results.append(result), and after the last plate the
\* response is returned and the request ends.
Finish(p, plates, rs, result, seen, looked) ==
    LET all == Append(rs, result)
    IN  /\ vs' = [vs EXCEPT ![p] = None]
        /\ pend' = [pend EXCEPT ![p] = None]
        /\ obs' = [obs EXCEPT ![p] = NoObs]
        /\ IF Len(all) = Len(plates)
           THEN /\ pc' = [pc EXCEPT ![p] = "idle"]
                /\ frame' = [frame EXCEPT ![p] = <<>>]
                /\ results' = [results EXCEPT ![p] = <<>>]
                /\ last' = Step("frame", Some(ScanFrameResponse(TRUE, Len(plates), all)), seen, looked)
           ELSE /\ pc' = [pc EXCEPT ![p] = "lookup"]
                /\ frame' = [frame EXCEPT ![p] = plates]
                /\ results' = [results EXCEPT ![p] = all]
                /\ last' = Step("plate", Some(result), seen, looked)

\* CachedResult reporting a fine whenever the cached status is non-compliant
CachedResult_fining(d, cached_status) ==
    ScanResult(d.plate_number, d.confidence, TRUE, Some(cached_status),
               ~is_compliant(cached_status), None, None)

\* The ScanResult of the cache-hit path
CachedResult(d, cached_status) ==
    ScanResult(d.plate_number, d.confidence, TRUE, Some(cached_status), FALSE, None, None)

\* The ScanResult after a successful validation
ValidatedResult(d, vehicle_status, fine_record) ==
    ScanResult(d.plate_number, d.confidence, FALSE, Some(vehicle_status),
               fine_record # None,
               IF fine_record # None THEN Some(fine_record[1].fine_amount) ELSE None,
               None)

\* The ScanResult of the except branch
ErrorResult(d, message) ==
    ScanResult(d.plate_number, d.confidence, FALSE, None, FALSE, None, Some(message))

\* ShouldFine with `>` for `>=`: a plate read at exactly 0.9 is not fined
ShouldFine_strict(vehicle_status, confidence) ==
    ~is_compliant(vehicle_status) /\ confidence > MIN_FINE_CONFIDENCE

\* `not vehicle_status.is_compliant and confidence >= MIN_FINE_CONFIDENCE`
ShouldFine(vehicle_status, confidence) ==
    ~is_compliant(vehicle_status) /\ confidence >= MIN_FINE_CONFIDENCE

\* _process_plate for plate number Len(rs) + 1 of `plates`, from its entry
\* to the return of the hit path or to the await of check_vehicle.
ProcessPlate(p, plates, rs) ==
    LET d == plates[Len(rs) + 1]
        r == get_cached_result(d.plate_number)
        seen == [NoObs EXCEPT !.hit = r.ret # None,
                              !.evicted = DOMAIN r.cache # DOMAIN cache]
    IN  /\ cache' = r.cache
        /\ hit_count' = r.hit_count
        /\ miss_count' = r.miss_count
        /\ lookups' = lookups + 1
        /\ IF r.ret # None
           THEN Finish(p, plates, rs, CachedResult(d, r.ret[1]), seen, Some(d))
           ELSE /\ pc' = [pc EXCEPT ![p] = "validating"]
                /\ frame' = [frame EXCEPT ![p] = plates]
                /\ results' = [results EXCEPT ![p] = rs]
                /\ obs' = [obs EXCEPT ![p] = seen]
                /\ last' = Step("lookup", None, seen, Some(d))
                /\ UNCHANGED <<vs, pend>>

\* scan_frame / scan_frame_base64: a request arrives and the detector has
\* answered (an empty upload, a detector that raises, no plate, or the
\* plates of the frame); then _process_plate for the first plate.  At most
\* `limit` detections are handed to the pipeline in a run.
ScanFrameUpTo(p, det, plates, limit) ==
    /\ UNCHANGED <<maint, call>>
    /\ pc[p] = "idle"
    /\ IF det = "ok" /\ plates # <<>>
       THEN /\ scans + Len(plates) <= limit
            /\ scans' = scans + Len(plates)
            /\ ProcessPlate(p, plates, <<>>)
       ELSE /\ plates = <<>>
            /\ last' = Step("frame", Some(ScanFrameResponse(det = "ok", 0, <<>>)), NoObs, None)
            /\ UNCHANGED <<scans, pc, frame, cache, hit_count, miss_count, lookups,
                           results, vs, pend, obs>>
    /\ UNCHANGED <<cooldown, road_tax_fine, insurance_fine, fines, logs, now>>

ScanFrame(p, det, plates) == ScanFrameUpTo(p, det, plates, MaxScans)

\* The loop of scan_frame goes on to its next plate.
Lookup(p) ==
    /\ UNCHANGED <<maint, call>>
    /\ pc[p] = "lookup"
    /\ ProcessPlate(p, frame[p], results[p])
    /\ UNCHANGED <<cooldown, road_tax_fine, insurance_fine, fines, logs, now, scans>>

\* ValidatorReturns as it would be if _process_plate called check_vehicle
\* again after a raise, until it returns a status
ValidatorReturns_retrying(p, response) ==
    /\ UNCHANGED <<maint, call>>
    /\ pc[p] = "validating"
    /\ LET d == Current(p)
           answer == check_vehicle(d.plate_number, response)
           called == [obs[p] EXCEPT !.calls = @ + 1, !.kind = response.kind]
           seen == [called EXCEPT !.status = answer, !.added = TRUE]
       IN  IF answer = None
           THEN /\ obs' = [obs EXCEPT ![p] = called]
                /\ last' = Step("validated", None, called, None)
                /\ UNCHANGED <<cache, pc, frame, results, vs, pend>>
           ELSE LET vehicle_status == answer[1]
                IN  /\ cache' = add_plate(d.plate_number, vehicle_status)
                    /\ IF ShouldFine(vehicle_status, d.confidence)
                       THEN LET rows == issue_fine_rows(vehicle_status, d.confidence)
                            IN  IF rows = None
                                THEN Finish(p, frame[p], results[p],
                                            ValidatedResult(d, vehicle_status, None), seen, None)
                                ELSE /\ pc' = [pc EXCEPT ![p] = "commit_fine"]
                                     /\ vs' = [vs EXCEPT ![p] = answer]
                                     /\ pend' = [pend EXCEPT ![p] = rows]
                                     /\ obs' = [obs EXCEPT ![p] = seen]
                                     /\ last' = Step("validated", None, seen, None)
                                     /\ UNCHANGED <<frame, results>>
                       ELSE /\ pc' = [pc EXCEPT ![p] = "commit_log"]
                            /\ vs' = [vs EXCEPT ![p] = answer]
                            /\ pend' = [pend EXCEPT ![p] =
                                  Some([scan_log |-> log_scan_row(d.plate_number, d.confidence,
                                                                  vehicle_status, FALSE, FALSE)])]
                            /\ obs' = [obs EXCEPT ![p] = seen]
                            /\ last' = Step("validated", None, seen, None)
                            /\ UNCHANGED <<frame, results>>
    /\ UNCHANGED <<cooldown, hit_count, miss_count, lookups, road_tax_fine,
                   insurance_fine, fines, logs, now, scans>>

\* check_vehicle returns or raises; on a status: add_plate, then the fine
\* decision up to the commit of issue_fine or of log_scan.
ValidatorReturns(p, response) ==
    /\ UNCHANGED <<maint, call>>
    /\ pc[p] = "validating"
    /\ LET d == Current(p)
           answer == check_vehicle(d.plate_number, response)
           called == [obs[p] EXCEPT !.calls = @ + 1, !.kind = response.kind]
           seen == [called EXCEPT !.status = answer, !.added = TRUE]
       IN  IF answer = None
           THEN /\ Finish(p, frame[p], results[p],
                          ErrorResult(d, "API returned status 500"), called, None)
                /\ UNCHANGED cache
           ELSE LET vehicle_status == answer[1]
                IN  /\ cache' = add_plate(d.plate_number, vehicle_status)
                    /\ IF ShouldFine(vehicle_status, d.confidence)
                       THEN LET rows == issue_fine_rows(vehicle_status, d.confidence)
                            IN  IF rows = None
                                THEN Finish(p, frame[p], results[p],
                                            ValidatedResult(d, vehicle_status, None), seen, None)
                                ELSE /\ pc' = [pc EXCEPT ![p] = "commit_fine"]
                                     /\ vs' = [vs EXCEPT ![p] = answer]
                                     /\ pend' = [pend EXCEPT ![p] = rows]
                                     /\ obs' = [obs EXCEPT ![p] = seen]
                                     /\ last' = Step("validated", None, seen, None)
                                     /\ UNCHANGED <<frame, results>>
                       ELSE /\ pc' = [pc EXCEPT ![p] = "commit_log"]
                            /\ vs' = [vs EXCEPT ![p] = answer]
                            /\ pend' = [pend EXCEPT ![p] =
                                  Some([scan_log |-> log_scan_row(d.plate_number, d.confidence,
                                                                  vehicle_status, FALSE, FALSE)])]
                            /\ obs' = [obs EXCEPT ![p] = seen]
                            /\ last' = Step("validated", None, seen, None)
                            /\ UNCHANGED <<frame, results>>
    /\ UNCHANGED <<cooldown, hit_count, miss_count, lookups, road_tax_fine,
                   insurance_fine, fines, logs, now, scans>>

\* How the rest of issue_fine can go: the commit raises; the commit writes
\* both rows and the refresh raises; or both succeed and notify_fine ends in
\* one of NotifyResponses.
IssueOutcomes == { "commit_error", "refresh_error" } \cup NotifyResponses

\* CommitFine as it would be if a failed notification undid the fine: the
\* rows are not kept and _process_plate returns an error.
CommitFine_notify_fatal(p, outcome) ==
    /\ UNCHANGED <<maint, call>>
    /\ pc[p] = "commit_fine"
    /\ LET d == Current(p)
           seen == [obs[p] EXCEPT !.fines = @ + 1, !.logs = @ + 1]
       IN  IF outcome = "commit_error"
           THEN /\ Finish(p, frame[p], results[p], ErrorResult(d, "commit failed"), obs[p], None)
                /\ UNCHANGED <<fines, logs>>
           ELSE IF outcome = "refresh_error"
           THEN /\ fines' = Append(fines, pend[p][1].fine)
                /\ logs' = Append(logs, pend[p][1].scan_log)
                /\ Finish(p, frame[p], results[p], ErrorResult(d, "refresh failed"), seen, None)
           ELSE IF notify_fine(outcome)
           THEN /\ fines' = Append(fines, pend[p][1].fine)
                /\ logs' = Append(logs, pend[p][1].scan_log)
                /\ Finish(p, frame[p], results[p],
                          ValidatedResult(d, vs[p][1], Some(pend[p][1].fine)),
                          [seen EXCEPT !.notified = outcome], None)
           ELSE /\ UNCHANGED <<fines, logs>>
                /\ Finish(p, frame[p], results[p], ErrorResult(d, "notification failed"),
                          [obs[p] EXCEPT !.notified = outcome], None)
    /\ UNCHANGED <<cooldown, cache, hit_count, miss_count, lookups, road_tax_fine,
                   insurance_fine, now, scans>>

\* issue_fine from session.commit() to its return, and the result of
\* _process_plate.  Nothing another request reads changes after the commit,
\* so the awaits of refresh and notify_fine are taken in the same step; the
\* bool notify_fine returns is dropped.
CommitFine(p, outcome) ==
    /\ UNCHANGED <<maint, call>>
    /\ pc[p] = "commit_fine"
    /\ LET d == Current(p)
           seen == [obs[p] EXCEPT !.fines = @ + 1, !.logs = @ + 1]
       IN  IF outcome = "commit_error"
           THEN /\ Finish(p, frame[p], results[p], ErrorResult(d, "commit failed"), obs[p], None)
                /\ UNCHANGED <<fines, logs>>
           ELSE /\ fines' = Append(fines, pend[p][1].fine)
                /\ logs' = Append(logs, pend[p][1].scan_log)
                /\ IF outcome = "refresh_error"
                   THEN Finish(p, frame[p], results[p], ErrorResult(d, "refresh failed"), seen, None)
                   ELSE /\ notify_fine(outcome) \in BOOLEAN
                        /\ Finish(p, frame[p], results[p],
                                  ValidatedResult(d, vs[p][1], Some(pend[p][1].fine)),
                                  [seen EXCEPT !.notified = outcome], None)
    /\ UNCHANGED <<cooldown, cache, hit_count, miss_count, lookups, road_tax_fine,
                   insurance_fine, now, scans>>

\* log_scan: session.commit() writes the row or raises.
CommitLog(p, ok) ==
    /\ UNCHANGED <<maint, call>>
    /\ pc[p] = "commit_log"
    /\ LET d == Current(p)
       IN  IF ok
           THEN /\ logs' = Append(logs, pend[p][1].scan_log)
                /\ Finish(p, frame[p], results[p], ValidatedResult(d, vs[p][1], None),
                          [obs[p] EXCEPT !.logs = @ + 1], None)
           ELSE /\ Finish(p, frame[p], results[p], ErrorResult(d, "commit failed"), obs[p], None)
                /\ UNCHANGED logs
    /\ UNCHANGED <<cooldown, cache, hit_count, miss_count, lookups, road_tax_fine,
                   insurance_fine, fines, now, scans>>

----------------------------------------------------------------------------
(* app/routers/scan.py: the cache endpoints; app/routers/fines.py *)

\* POST /cache/clear
ClearCache ==
    /\ maint < MaxMaint
    /\ maint' = maint + 1
    /\ UNCHANGED call
    /\ cache' = clear.cache
    /\ hit_count' = clear.hit_count
    /\ miss_count' = clear.miss_count
    /\ lookups' = 0
    /\ last' = Step("clear", None, NoObs, None)
    /\ UNCHANGED <<cooldown, road_tax_fine, insurance_fine, fines, logs, now,
                   pc, frame, results, vs, pend, obs, scans>>

\* POST /cache/cleanup
CleanupCache ==
    /\ maint < MaxMaint
    /\ maint' = maint + 1
    /\ UNCHANGED call
    /\ cache' = cleanup_expired.cache
    /\ last' = Step("cleanup", Some(cleanup_expired.ret), NoObs, None)
    /\ UNCHANGED <<cooldown, hit_count, miss_count, lookups, road_tax_fine,
                   insurance_fine, fines, logs, now, pc, frame, results, vs,
                   pend, obs, scans>>

\* GET /cache/stats
GetCacheStats ==
    /\ maint < MaxMaint
    /\ maint' = maint + 1
    /\ UNCHANGED call
    /\ last' = Step("stats", Some(get_stats(cache, hit_count, miss_count, now)), NoObs, None)
    /\ UNCHANGED <<cooldown, cache, hit_count, miss_count, lookups, road_tax_fine,
                   insurance_fine, fines, logs, now, pc, frame, results, vs,
                   pend, obs, scans>>

\* POST /fines/{fine_id}/pay
MarkFinePaid(fine_id) ==
    /\ maint < MaxPays
    /\ maint' = maint + 1
    /\ UNCHANGED call
    /\ fines' = mark_fine_paid(fine_id).fines
    /\ last' = Step("pay", Some([fine_id |-> fine_id, paid |-> mark_fine_paid(fine_id).ret]),
                    NoObs, None)
    /\ UNCHANGED <<cooldown, cache, hit_count, miss_count, lookups, road_tax_fine,
                   insurance_fine, logs, now, pc, frame, results, vs, pend,
                   obs, scans>>

\* A minute passes
Tick ==
    /\ UNCHANGED <<maint, call>>
    /\ now < MaxTime
    /\ now' = now + 1
    /\ last' = Step("tick", None, NoObs, None)
    /\ UNCHANGED <<cooldown, cache, hit_count, miss_count, lookups, road_tax_fine,
                   insurance_fine, fines, logs, pc, frame, results, vs, pend,
                   obs, scans>>

----------------------------------------------------------------------------
(* app/services/plate_cache.py, called directly *)

\* key = self._normalize_plate(x)
NormalizeCall ==
    /\ call.stage = "start"
    /\ call' = [call EXCEPT !.stage = "keyed", !.key = Some(normalize_plate(call.x))]
    /\ UNCHANGED <<cooldown, cache, hit_count, miss_count, lookups, road_tax_fine,
                   insurance_fine, fines, logs, now, pc, frame, results, vs,
                   pend, obs, scans, maint, last>>

\* self._normalize_plate(key)
RenormalizeCall ==
    /\ call.stage = "keyed"
    /\ call' = [call EXCEPT !.stage = "rekeyed", !.again = Some(normalize_plate(call.key[1]))]
    /\ UNCHANGED <<cooldown, cache, hit_count, miss_count, lookups, road_tax_fine,
                   insurance_fine, fines, logs, now, pc, frame, results, vs,
                   pend, obs, scans, maint, last>>

\* plate_cache.add_plate(x, result)
AddPlateCall(result) ==
    /\ call.stage = "rekeyed"
    /\ result.plate_number = call.x
    /\ cache' = add_plate(call.x, result)
    /\ call' = [call EXCEPT !.stage = "added"]
    /\ UNCHANGED <<cooldown, hit_count, miss_count, lookups, road_tax_fine,
                   insurance_fine, fines, logs, now, pc, frame, results, vs,
                   pend, obs, scans, maint, last>>

\* plate_cache.get_cached_result(y)
GetCachedResultCall(y) ==
    /\ call.stage = "added"
    /\ LET r == get_cached_result(y)
       IN  /\ cache' = r.cache
           /\ hit_count' = r.hit_count
           /\ miss_count' = r.miss_count
           /\ lookups' = lookups + 1
           /\ call' = [call EXCEPT !.stage = "looked", !.y = Some(y), !.ret = r.ret]
    /\ UNCHANGED <<cooldown, road_tax_fine, insurance_fine, fines, logs, now,
                   pc, frame, results, vs, pend, obs, scans, maint, last>>

\* The scan requests in PS
Serve(PS) ==
    \/ \E p \in PS, det \in { "ok", "empty", "error" }, plates \in Frames : ScanFrame(p, det, plates)
    \/ \E p \in PS : Lookup(p)
    \/ \E p \in PS, response \in Responses : ValidatorReturns(p, response)
    \/ \E p \in PS, outcome \in IssueOutcomes : CommitFine(p, outcome)
    \/ \E p \in PS, ok \in BOOLEAN : CommitLog(p, ok)

\* One scan request at a time, over a longer run
ServeSeq ==
    \/ \E det \in { "ok", "empty", "error" }, plates \in Frames : ScanFrameUpTo(1, det, plates, MaxSeqScans)
    \/ Lookup(1)
    \/ \E response \in Responses : ValidatorReturns(1, response)
    \/ \E outcome \in IssueOutcomes : CommitFine(1, outcome)
    \/ \E ok \in BOOLEAN : CommitLog(1, ok)

\* The maintenance endpoints of the cache
Maintain ==
    \/ ClearCache
    \/ CleanupCache
    \/ GetCacheStats

\* The payment endpoint, for the ids of the ledger and one past them
Pay == \E fine_id \in 1..(MaxScans + 1) : MarkFinePaid(fine_id)

\* Concurrent scan requests
Next == Serve(Procs) \/ Tick

\* One scan request at a time, and the maintenance endpoints
NextMaint == Serve({ 1 }) \/ Maintain \/ Tick

\* One scan request at a time, and the payment endpoint
NextPay == Serve({ 1 }) \/ Pay \/ Tick

\* One scan request after the other
NextSeq == ServeSeq \/ Tick

\* A caller of the PlateCache: normalize, insert, look up
NextCache ==
    \/ NormalizeCall
    \/ RenormalizeCall
    \/ \E tax \in BOOLEAN, ins \in BOOLEAN : AddPlateCall(VehicleStatus(call.x, tax, ins))
    \/ \E y \in Texts : GetCachedResultCall(y)

Spec == Init /\ [][Next]_vars

SpecMaint == Init /\ [][NextMaint]_vars

SpecPay == Init /\ [][NextPay]_vars

SpecSeq == Init /\ [][NextSeq]_vars

SpecCache == InitCache /\ [][NextCache]_vars

\* The awaits of the request return: the loop of scan_frame goes on to its
\* next plate, the HTTP calls answer or raise within external_api_timeout,
\* and a commit succeeds or raises.
Fairness ==
    /\ WF_vars(Lookup(1))
    /\ WF_vars(\E response \in Responses : ValidatorReturns(1, response))
    /\ WF_vars(\E outcome \in IssueOutcomes : CommitFine(1, outcome))
    /\ WF_vars(\E ok \in BOOLEAN : CommitLog(1, ok))

\* One scan request at a time, each await of which returns
NextOne == Serve({ 1 }) \/ Tick

SpecFair == Init /\ [][NextOne]_vars /\ Fairness

SpecCtor == InitCtor /\ [][NextOne]_vars

----------------------------------------------------------------------------
(* Properties *)

\* The step just taken returned a ScanResult (alone or as the last of a frame)
JustCompleted ==
    \/ last.op = "plate"
    \/ last.op = "frame" /\ last.ret[1].results # <<>>

\* That ScanResult
LastResult ==
    IF last.op = "frame"
    THEN last.ret[1].results[Len(last.ret[1].results)]
    ELSE last.ret[1]

\* The cache holds an entry for the plate that is inside its cooldown window
FreshIn(plate_number) ==
    LET k == normalize_plate(plate_number)
    IN  k \in DOMAIN cache /\ now - cache[k].timestamp <= cooldown

\* C1: with no clear(), whatever the interleaving of concurrent
\* _process_plate calls, at most one fine of a normalized key is created
\* between the insertion of the key's cache entry and the entry's expiry:
\* of the fines of a cached key, at most one was issued since the entry's
\* timestamp.
C1_ExactlyOnceFine ==
    \A k \in DOMAIN cache :
        Cardinality({ i \in DOMAIN fines :
                        /\ normalize_plate(fines[i].plate_number) = k
                        /\ fines[i].issued_at >= cache[k].timestamp }) <= 1

\* C2: a _process_plate whose lookup finds an entry inside its window, for
\* any confidence and any cached status, returns in that same step without
\* reaching check_vehicle, adds no row to fines or scan_logs, and its
\* ScanResult has cached = true, fine_issued = false, no amount, no error
\* and the cached status.
C2_CacheHitPath ==
    [][\A d \in Detections :
         (last'.looked = Some(d) /\ FreshIn(d.plate_number)) =>
            /\ fines' = fines
            /\ logs' = logs
            /\ JustCompleted'
            /\ last'.seen.calls = 0
            /\ \A p \in Procs : pc'[p] = "validating" => pc[p] = "validating"
            /\ LastResult' =
                 [plate_number |-> d.plate_number, confidence |-> d.confidence,
                  cached |-> TRUE,
                  vehicle_status |-> Some(cache[normalize_plate(d.plate_number)].result),
                  fine_issued |-> FALSE, fine_amount |-> None, error |-> None]
      ]_vars

\* A plate read at 0.9 or more is answered from the cache with a
\* non-compliant status
C2_Witness ==
    /\ JustCompleted
    /\ last.seen.hit
    /\ LastResult.cached
    /\ LastResult.confidence >= MIN_FINE_CONFIDENCE
    /\ ~is_compliant(LastResult.vehicle_status[1])

\* The plate just completed missed the cache and check_vehicle returned a
\* non-compliant status for it
ValidatedNonCompliant ==
    /\ JustCompleted
    /\ ~last.seen.hit
    /\ last.seen.status # None
    /\ ~is_compliant(last.seen.status[1])

C5_CooldownWindow ==
    [][\A d \in Detections :
         LET k == normalize_plate(d.plate_number)
         IN  (last'.looked = Some(d) /\ k \in DOMAIN cache) =>
                IF now - cache[k].timestamp <= cooldown
                THEN /\ last'.seen.hit
                     /\ JustCompleted'
                     /\ LastResult'.vehicle_status = Some(cache[k].result)
                     /\ fines' = fines
                ELSE /\ ~last'.seen.hit
                     /\ last'.op = "lookup"
                     /\ k \notin DOMAIN cache'
                     /\ \E p \in Procs : pc[p] # "validating" /\ pc'[p] = "validating"
      ]_vars

\* A plate is answered from an entry on the last minute of its window
C5_Witness ==
    /\ JustCompleted
    /\ last.seen.hit
    /\ LET k == normalize_plate(LastResult.plate_number)
       IN  k \in DOMAIN cache /\ now - cache[k].timestamp = cooldown

\* C6: every detection that _process_plate handles without an error leaves
\* exactly one row in scan_logs, whether it was a cache hit, compliant, fined
\* or skipped for low confidence.
C6_AuditTrail ==
    (JustCompleted /\ LastResult.error = None) => last.seen.logs = 1

\* C7: a frame of n plates is answered with success, plates_detected = n and
\* n ScanResults in the order of detection.  Each step of a request either
\* waits on, or returns the ScanResult of, the plate it is at; whatever that
\* result is (an error included), the results before it stay as they were
\* and the request goes on to the next plate, or answers after the last.
C7_BatchIsolation ==
    [][\A p \in Procs :
         /\ pc[p] # "idle" =>
              LET n == Len(frame[p])
                  done == Len(results[p])
              IN  \/ pc'[p] = pc[p] /\ frame'[p] = frame[p] /\ results'[p] = results[p]
                  \/ /\ pc'[p] \in { "validating", "commit_fine", "commit_log" }
                     /\ frame'[p] = frame[p]
                     /\ results'[p] = results[p]
                  \/ /\ done + 1 < n
                     /\ pc'[p] = "lookup"
                     /\ frame'[p] = frame[p]
                     /\ Len(results'[p]) = done + 1
                     /\ SubSeq(results'[p], 1, done) = results[p]
                     /\ results'[p][done + 1].plate_number = frame[p][done + 1].plate_number
                     /\ results'[p][done + 1].confidence = frame[p][done + 1].confidence
                  \/ /\ done + 1 = n
                     /\ pc'[p] = "idle"
                     /\ last'.op = "frame"
                     /\ LET resp == last'.ret[1]
                        IN  /\ resp.success
                            /\ resp.plates_detected = n
                            /\ Len(resp.results) = n
                            /\ SubSeq(resp.results, 1, done) = results[p]
                            /\ \A i \in 1..n :
                                  /\ resp.results[i].plate_number = frame[p][i].plate_number
                                  /\ resp.results[i].confidence = frame[p][i].confidence
         /\ (pc[p] = "idle" /\ pc'[p] # "idle") =>
              /\ frame'[p] # <<>>
              /\ Len(results'[p]) <= 1
              /\ Len(results'[p]) < Len(frame'[p])
         /\ (last'.op = "frame" /\ last'.ret[1].results # <<>>) =>
              /\ last'.ret[1].success
              /\ last'.ret[1].plates_detected = Len(last'.ret[1].results)
      ]_vars

\* A frame of two plates is answered with an error for the first plate and a
\* validated status for the second
C7_Witness ==
    /\ last.op = "frame"
    /\ Len(last.ret[1].results) = 2
    /\ last.ret[1].plates_detected = 2
    /\ last.ret[1].results[1].error # None
    /\ last.ret[1].results[2].error = None
    /\ last.ret[1].results[2].vehicle_status # None

\* The fine policy: amount and category for the two validity flags
FinePolicy(road_tax_valid, insurance_valid) ==
    CASE ~road_tax_valid /\ ~insurance_valid -> <<road_tax_fine + insurance_fine, "both">>
      [] ~road_tax_valid /\ insurance_valid -> <<road_tax_fine, "road_tax">>
      [] road_tax_valid /\ ~insurance_valid -> <<insurance_fine, "insurance">>
      [] road_tax_valid /\ insurance_valid -> <<0, "none">>

\* The scan logs written together with a fine, in the order of the fines
FiningLogs == SelectSeq(logs, LAMBDA l : l.fine_issued)

\* C8: calculate_fine is the fine policy table on all four combinations of
\* the validity flags (450 and "both" for both expired under the default
\* amounts 150 and 300), and every fine in the ledger carries the amount and
\* the category of the table for the status it was issued for.
C8_FinePolicy ==
    /\ \A plate \in RawPlates, tax \in BOOLEAN, ins \in BOOLEAN :
          calculate_fine(VehicleStatus(plate, tax, ins)) = FinePolicy(tax, ins)
    /\ (road_tax_fine = 150 /\ insurance_fine = 300) =>
          calculate_fine(VehicleStatus(<<"X", "9">>, FALSE, FALSE)) = <<450, "both">>
    /\ Len(FiningLogs) = Len(fines)
    /\ \A i \in DOMAIN fines :
          /\ FiningLogs[i].plate_number = fines[i].plate_number
          /\ <<fines[i].fine_amount, fines[i].fine_type>> =
                FinePolicy(FiningLogs[i].road_tax_valid, FiningLogs[i].insurance_valid)

\* A fine of 450, category "both", is in the ledger
C8_Witness ==
    \E i \in DOMAIN fines :
        /\ fines[i].fine_amount = 450
        /\ fines[i].fine_type = "both"
        /\ ~FiningLogs[i].road_tax_valid
        /\ ~FiningLogs[i].insurance_valid

\* C9: the cache holds at most one entry per normalized key: every entry is
\* stored under the normalized form of the plate its status is about.  An
\* add_plate for a key, present or not and however the plate is spelled,
\* leaves exactly one entry for the key, holding the status just returned and
\* the time of this insert, and leaves the other entries as they were.
C9_ReplaceOnInsert ==
    /\ [](\A k \in DOMAIN cache :
            /\ normalize_plate(k) = k
            /\ cache[k].plate_number = k
            /\ normalize_plate(cache[k].result.plate_number) = k)
    /\ [][\A p \in Procs :
            (pc[p] = "validating" /\ pc'[p] # "validating" /\ last'.seen.status # None) =>
               LET k == normalize_plate(Current(p).plate_number)
               IN  /\ DOMAIN cache' = DOMAIN cache \cup { k }
                   /\ cache'[k] = [plate_number |-> k,
                                   result |-> last'.seen.status[1],
                                   timestamp |-> now]
                   /\ \A j \in DOMAIN cache \ { k } : cache'[j] = cache[j]
         ]_vars

\* An entry was replaced by a later insert of the same key under another
\* spelling: the scan logged at minute 0 spelled it differently
C9_Witness ==
    \E k \in DOMAIN cache :
        /\ cache[k].timestamp > 0
        /\ \E i \in DOMAIN logs :
              /\ normalize_plate(logs[i].plate_number) = k
              /\ logs[i].scanned_at = 0
              /\ logs[i].plate_number # cache[k].result.plate_number

\* C10: right after clear() the cache is empty and both counters are 0:
\* get_stats reports total_entries = 0, hit_count = 0, miss_count = 0 and
\* hit_rate = 0.0, and a lookup of any plate is a miss.
C10_ClearResets ==
    last.op = "clear" =>
        /\ cache = <<>>
        /\ hit_count = 0
        /\ miss_count = 0
        /\ get_stats(cache, hit_count, miss_count, now) = CacheStats(0, 0, 0, 0, 0, <<0, 1>>)
        /\ \A plate \in RawPlates : get_cached_result(plate).ret = None

\* clear() has just run on a cache that held the entry of a plate scanned
\* this very minute
C10_Witness ==
    /\ last.op = "clear"
    /\ \E i \in DOMAIN logs : logs[i].scanned_at = now

\* C11: cleanup_expired deletes exactly the entries whose age exceeds the
\* cooldown and returns their number: every other entry is kept with its
\* status and timestamp, no expired entry remains, and the hit and miss
\* counters are unchanged.
C11_CleanupExpired ==
    [][last'.op = "cleanup" =>
         /\ DOMAIN cache' = { k \in DOMAIN cache : now - cache[k].timestamp <= cooldown }
         /\ \A k \in DOMAIN cache' : cache'[k] = cache[k]
         /\ \A k \in DOMAIN cache' : ~(now' - cache'[k].timestamp > cooldown)
         /\ last'.ret = Some(Cardinality(DOMAIN cache \ DOMAIN cache'))
         /\ hit_count' = hit_count
         /\ miss_count' = miss_count
      ]_vars

\* A cleanup has removed one entry and kept another
C11_Witness ==
    /\ last.op = "cleanup"
    /\ last.ret = Some(1)
    /\ cache # <<>>

\* C12: get_stats changes neither the map (expired entries are counted,
\* not deleted) nor the counters, and reports total_entries = active_entries
\* + expired_entries, with total_entries the size of the map and
\* active_entries the number of entries whose age is <= cooldown at the call.
C12_StatsReadOnly ==
    [][last'.op = "stats" =>
         LET s == last'.ret[1]
         IN  /\ cache' = cache
             /\ hit_count' = hit_count
             /\ miss_count' = miss_count
             /\ s.total_entries = s.active_entries + s.expired_entries
             /\ s.total_entries = Cardinality(DOMAIN cache)
             /\ s.active_entries =
                  Cardinality({ k \in DOMAIN cache : now - cache[k].timestamp <= cooldown })
             /\ s.hit_count = hit_count
             /\ s.miss_count = miss_count
      ]_vars

\* get_stats has counted an expired entry, which is still in the map, next
\* to an active one
C12_Witness ==
    /\ last.op = "stats"
    /\ last.ret[1].expired_entries = 1
    /\ last.ret[1].active_entries = 1
    /\ Cardinality(DOMAIN cache) = 2

\* C13: the hit_rate of get_stats is hit_count / (hit_count + miss_count)
\* when a lookup has been counted and 0.0 when none has; it lies between 0
\* and 1.  (The rate is the fraction <<numerator, denominator>>.)
C13_HitRate ==
    LET r == get_stats(cache, hit_count, miss_count, now).hit_rate
    IN  /\ r[2] > 0
        /\ 0 <= r[1]
        /\ r[1] <= r[2]
        /\ IF hit_count + miss_count > 0
           THEN r[1] * (hit_count + miss_count) = hit_count * r[2]
           ELSE r[1] = 0
        /\ last.op = "stats" => last.ret[1].hit_rate = r

\* get_stats reports a rate of one half: one hit, one miss
C13_Witness ==
    /\ last.op = "stats"
    /\ hit_count = 1
    /\ miss_count = 1
    /\ last.ret[1].hit_rate = <<1, 2>>

\* The two cases of one letter
CasePairs == { { "a", "A" }, { "b", "B" }, { "x", "X" } }

\* A plate text without its spaces and hyphens
Unseparated(text) == SelectSeq(text, LAMBDA c : c \notin { " ", "-" })

\* Two plate texts differ only in letter case, spaces or hyphens
SameButCaseAndSeparators(s, t) ==
    LET a == Unseparated(s)
        b == Unseparated(t)
    IN  /\ Len(a) = Len(b)
        /\ \A i \in 1..Len(a) : a[i] = b[i] \/ { a[i], b[i] } \in CasePairs

\* C14: _normalize_plate applied to its own result returns it unchanged;
\* two plate texts that differ only in letter case, spaces or hyphens have
\* the same key, and an entry inserted under one of them is a cache hit,
\* with the inserted status, when looked up under the other.
C14_NormalizeIdempotent ==
    /\ call.again # None => call.again = call.key
    /\ call.key # None =>
          \A t \in Texts :
              SameButCaseAndSeparators(call.x, t) => normalize_plate(t) = call.key[1]
    /\ (call.stage = "looked" /\ SameButCaseAndSeparators(call.x, call.y[1])) =>
          /\ call.ret # None
          /\ call.ret[1].plate_number = call.x
          /\ DOMAIN cache = { call.key[1] }

\* An entry inserted as "a-" is hit by a lookup of "A"
C14_Witness ==
    /\ call.stage = "looked"
    /\ call.x = <<"a", "-">>
    /\ call.y = Some(<<"A">>)
    /\ call.ret # None

\* The characters a cache key may consist of
UpperAlnum == { "A", "B", "X", "1", "9" }

ComplianceTable(road_tax_valid, insurance_valid) ==
    CASE road_tax_valid /\ insurance_valid -> "compliant"
      [] ~road_tax_valid /\ insurance_valid -> "tax_expired"
      [] road_tax_valid /\ ~insurance_valid -> "insurance_expired"
      [] ~road_tax_valid /\ ~insurance_valid -> "both_expired"

\* C16: compliance_status is determined by (road_tax_valid,
\* insurance_valid): (true, true) compliant, (false, true) tax_expired,
\* (true, false) insurance_expired, (false, false) both_expired;
\* is_compliant holds iff the status is compliant; issue_fine writes nothing
\* and returns None for a compliant status, and a plate validated as
\* compliant ends without a fine at any confidence.
C16_ComplianceStatus ==
    /\ \A plate \in RawPlates, tax \in BOOLEAN, ins \in BOOLEAN :
          LET v == VehicleStatus(plate, tax, ins)
          IN  /\ compliance_status(v) = ComplianceTable(tax, ins)
              /\ is_compliant(v) <=> compliance_status(v) = "compliant"
              /\ (tax /\ ins) =>
                    \A d \in Detections : issue_fine_rows(v, d.confidence) = None
    /\ (JustCompleted /\ last.seen.status # None) =>
          LET v == last.seen.status[1]
          IN  (v.road_tax_valid /\ v.insurance_valid) =>
                 /\ last.seen.fines = 0
                 /\ ~LastResult.fine_issued
                 /\ LastResult.fine_amount = None

\* A plate read at 0.9 and validated as compliant is logged and not fined
C16_Witness ==
    /\ JustCompleted
    /\ last.seen.status # None
    /\ is_compliant(last.seen.status[1])
    /\ LastResult.confidence >= MIN_FINE_CONFIDENCE
    /\ last.seen.logs = 1
    /\ last.seen.fines = 0

\* C17: notify_fine is called only once the fine and its scan log are
\* committed, and when the notification fails (network error or a response
\* other than 200/201) the fine stays in the ledger and _process_plate
\* returns it: fine_issued = true with the fine's amount, no error.
C17_NotifyBestEffort ==
    (JustCompleted /\ last.seen.notified # "none") =>
        /\ last.seen.fines = 1
        /\ last.seen.logs = 1
        /\ fines # <<>>
        /\ logs # <<>>
        /\ LET fine == fines[Len(fines)]
               r == LastResult
           IN  /\ fine.plate_number = last.seen.status[1].plate_number
               /\ logs[Len(logs)].fine_issued
               /\ logs[Len(logs)].plate_number = fine.plate_number
               /\ r.error = None
               /\ r.fine_issued
               /\ r.fine_amount = Some(fine.fine_amount)
               /\ r.vehicle_status = last.seen.status

\* A fine whose notification met a network error is returned as issued
C17_Witness ==
    /\ JustCompleted
    /\ last.seen.notified = "RequestError"
    /\ LastResult.fine_issued
    /\ LastResult.fine_amount # None
    /\ fines # <<>>

\* C18: a fine is created with paid = false; mark_fine_paid on an existing
\* id sets paid = true, changes no other fine and returns true, and on an
\* unknown id returns false and changes nothing; no step turns paid from
\* true to false, removes a fine, or alters the plate, amount, category or
\* issue time of a fine, and only mark_fine_paid changes an existing fine.
C18_PaymentOneWay ==
    [][/\ Len(fines') >= Len(fines)
       /\ \A i \in DOMAIN fines :
             /\ fines[i].paid => fines'[i].paid
             /\ fines'[i].plate_number = fines[i].plate_number
             /\ fines'[i].fine_amount = fines[i].fine_amount
             /\ fines'[i].fine_type = fines[i].fine_type
             /\ fines'[i].issued_at = fines[i].issued_at
       /\ \A i \in (DOMAIN fines') \ (DOMAIN fines) :
             ~fines'[i].paid /\ fines'[i].paid_at = None
       /\ IF last'.op = "pay"
          THEN LET c == last'.ret[1]
               IN  IF c.fine_id \in DOMAIN fines
                   THEN /\ c.paid
                        /\ fines'[c.fine_id].paid
                        /\ Len(fines') = Len(fines)
                        /\ \A j \in (DOMAIN fines) \ { c.fine_id } : fines'[j] = fines[j]
                   ELSE /\ ~c.paid
                        /\ fines' = fines
          ELSE \A i \in DOMAIN fines : fines'[i] = fines[i]
      ]_vars

\* A fine issued earlier has just been marked paid, by the second call of
\* the payment endpoint
C18_Witness ==
    /\ last.op = "pay"
    /\ maint = 2
    /\ last.ret[1].paid
    /\ fines[last.ret[1].fine_id].paid
    /\ fines[last.ret[1].fine_id].issued_at < now

\* C19: every fine and every scan log stores the normalized key of its
\* plate as plate_number, so that get_fine_by_plate(p) returns every fine
\* of the vehicle, however the detector spelled the plate and however p is
\* spelled.
C19_NormalizedLedger ==
    /\ \A i \in DOMAIN fines : fines[i].plate_number = normalize_plate(fines[i].plate_number)
    /\ \A i \in DOMAIN logs : logs[i].plate_number = normalize_plate(logs[i].plate_number)
    /\ \A i \in DOMAIN fines, p \in RawPlates :
          normalize_plate(p) = normalize_plate(fines[i].plate_number) =>
             i \in get_fine_by_plate(p)

\* The fines of key k issued since the timestamp of its cache entry
FinesInWindow(k) ==
    { i \in DOMAIN fines :
        /\ normalize_plate(fines[i].plate_number) = k
        /\ fines[i].issued_at >= cache[k].timestamp }

\* C20: the lookup-then-insert race is reachable.  Two fines of one key
\* inside one window of its cache entry come from two observations that
\* both missed the cache and both had a status from the Validator: two
\* misses are counted, and each fine has its own scan log that is not a
\* cached result.
C20_RaceReachable ==
    \A k \in DOMAIN cache :
        Cardinality(FinesInWindow(k)) >= 2 =>
            /\ miss_count >= 2
            /\ Cardinality({ i \in DOMAIN logs :
                               /\ normalize_plate(logs[i].plate_number) = k
                               /\ logs[i].fine_issued
                               /\ ~logs[i].cached_result
                               /\ logs[i].scanned_at >= cache[k].timestamp }) >= 2

\* Two requests saw the same plate for the first time, both missed, both
\* validated and both fined it: two fines in minute 0, no hit, two misses
C20_Witness ==
    /\ \E k \in DOMAIN cache :
          /\ Cardinality(FinesInWindow(k)) = 2
          /\ now - cache[k].timestamp <= cooldown
    /\ hit_count = 0
    /\ miss_count = 2
    /\ now = 0
    /\ JustCompleted
    /\ last.seen.calls = 1
    /\ last.seen.fines = 1

\* C21: every get_cached_result call adds exactly 1 to exactly one of
\* hit_count and miss_count (to hit_count iff it returns a status), clear()
\* sets both to 0, and no other step (insert, sweep, stats, commit, tick)
\* changes them; so whatever the interleaving of scans and maintenance
\* calls, hit_count + miss_count is the number of get_cached_result calls
\* completed since construction or the last clear().
C21_CounterAccounting ==
    /\ [](hit_count + miss_count = lookups)
    /\ [][IF last'.op = "clear"
          THEN hit_count' = 0 /\ miss_count' = 0
          ELSE IF last'.looked # None
          THEN \/ /\ last'.seen.hit
                  /\ LastResult'.vehicle_status # None
                  /\ hit_count' = hit_count + 1
                  /\ miss_count' = miss_count
               \/ /\ ~last'.seen.hit
                  /\ last'.op = "lookup"
                  /\ hit_count' = hit_count
                  /\ miss_count' = miss_count + 1
          ELSE hit_count' = hit_count /\ miss_count' = miss_count
         ]_vars

\* A clear() ran between the two lookups of a request: the first was a
\* miss, the second is a hit on the entry inserted after the clear(), and
\* the counters show one hit and no miss
C21_Witness ==
    /\ scans = 2
    /\ maint = 1
    /\ lookups = 1
    /\ hit_count = 1
    /\ miss_count = 0
    /\ JustCompleted
    /\ last.seen.hit

\* C22: a get_cached_result that finds an entry older than the cooldown
\* removes that entry in the same call, leaves every other key's entry as it
\* was, adds 1 to miss_count and nothing to hit_count, and returns None (the
\* plate goes on to the Validator); get_stats counts one entry less from
\* then on: at any time its totals are those of the map, which no longer
\* holds the entry.
C22_LazyExpiry ==
    /\ [](LET stats == get_stats(cache, hit_count, miss_count, now)
          IN  /\ stats.total_entries = Cardinality(DOMAIN cache)
              /\ stats.total_entries = stats.active_entries + stats.expired_entries)
    /\ [][\A d \in Detections :
            LET k == normalize_plate(d.plate_number)
                before == get_stats(cache, hit_count, miss_count, now)
                after == get_stats(cache', hit_count', miss_count', now')
            IN  (last'.looked = Some(d) /\ k \in DOMAIN cache
                   /\ now - cache[k].timestamp > cooldown) =>
                   /\ DOMAIN cache' = DOMAIN cache \ { k }
                   /\ \A j \in DOMAIN cache' : cache'[j] = cache[j]
                   /\ miss_count' = miss_count + 1
                   /\ hit_count' = hit_count
                   /\ ~last'.seen.hit
                   /\ last'.seen.evicted
                   /\ last'.op = "lookup"
                   /\ pc'[1] = "validating"
                   /\ after.total_entries = before.total_entries - 1
                   /\ after.expired_entries = before.expired_entries - 1
                   /\ after.active_entries = before.active_entries
         ]_vars

\* The third lookup of a run has just removed the expired entry of its
\* plate, and the entry of another plate, inserted later, is still there
C22_Witness ==
    /\ last.op = "lookup"
    /\ last.seen.evicted
    /\ lookups = 3
    /\ miss_count = 3
    /\ Cardinality(DOMAIN cache) = 1
    /\ normalize_plate(last.looked[1].plate_number) \notin DOMAIN cache

\* C23: whenever check_vehicle returns a status to _process_plate, whether
\* the status is compliant or not and whatever the confidence of the read,
\* the same step stores it in the cache under the normalized key of the
\* plate, so that from then on a lookup of the plate, in any spelling of the
\* detector, is a hit with that status; and a scan that looks a plate up
\* inside the window of its entry does not call the Validator.
C23_UnconditionalCaching ==
    [][/\ \A p \in Procs :
            (pc[p] = "validating" /\ pc'[p] # "validating" /\ last'.seen.status # None) =>
               LET d == Current(p)
                   k == normalize_plate(d.plate_number)
               IN  /\ last'.seen.added
                   /\ k \in DOMAIN cache'
                   /\ cache'[k].result = last'.seen.status[1]
                   /\ cache'[k].result.plate_number = d.plate_number
                   /\ cache'[k].timestamp = now
                   /\ \A e \in Detections :
                         normalize_plate(e.plate_number) = k =>
                            (get_cached_result(e.plate_number).ret)' = last'.seen.status
       /\ \A d \in Detections :
            (last'.looked = Some(d) /\ FreshIn(d.plate_number)) =>
               /\ last'.seen.calls = 0
               /\ \A p \in Procs : pc'[p] = "validating" => pc[p] = "validating"
      ]_vars

\* A plate read at 0.6 and validated as non-compliant has just been cached,
\* and so has, earlier in the run, a compliant one
C23_Witness ==
    /\ last.op = "validated"
    /\ last.seen.added
    /\ ~is_compliant(last.seen.status[1])
    /\ \E p \in Procs :
          /\ pc[p] = "commit_log"
          /\ Current(p).confidence < MIN_FINE_CONFIDENCE
          /\ cache[normalize_plate(Current(p).plate_number)].result = last.seen.status[1]
    /\ \E k \in DOMAIN cache : is_compliant(cache[k].result)

\* C24: for every configuration of the fine amounts, a cache hit adds no
\* row to scan_logs, a failure of the Validator adds none, and a miss whose
\* validation succeeded and that ends without an error adds exactly one row,
\* with cached_result = false and with fine_issued = true iff a fine was
\* created for the observation.
C24_LoggingPerPath ==
    JustCompleted =>
        /\ last.seen.hit => last.seen.logs = 0
        /\ (~last.seen.hit /\ last.seen.status = None) => last.seen.logs = 0
        /\ (~last.seen.hit /\ last.seen.status # None /\ LastResult.error = None) =>
              /\ last.seen.logs = 1
              /\ logs # <<>>
              /\ ~logs[Len(logs)].cached_result
              /\ logs[Len(logs)].plate_number = LastResult.plate_number
              /\ logs[Len(logs)].fine_issued <=> last.seen.fines = 1

\* C25: a fine and its scan log with fine_issued = true are committed
\* together: every step adds one row to fines and one such row to scan_logs,
\* or adds neither (a failed commit adds neither), so the ledger always has
\* as many fines as scan logs with fine_issued = true, and the i-th such log
\* has the plate_number and the time of the i-th fine.
C25_CoCreated ==
    /\ [](/\ Len(fines) = Len(FiningLogs)
          /\ \A i \in DOMAIN fines :
                /\ FiningLogs[i].plate_number = fines[i].plate_number
                /\ FiningLogs[i].scanned_at = fines[i].issued_at
                /\ ~FiningLogs[i].cached_result)
    /\ [][\/ fines' = fines /\ FiningLogs' = FiningLogs
          \/ /\ Len(fines') = Len(fines) + 1
             /\ Len(FiningLogs') = Len(FiningLogs) + 1
             /\ SubSeq(fines', 1, Len(fines)) = fines
             /\ logs' = Append(logs, FiningLogs'[Len(FiningLogs')])
         ]_vars

\* The ledger holds a scan log without a fine and, after it, a fine with
\* its scan log
C25_Witness ==
    /\ Len(fines) = 1
    /\ Len(logs) = 2
    /\ ~logs[1].fine_issued
    /\ logs[2].fine_issued
    /\ logs[2].plate_number = fines[1].plate_number

\* The observation just completed ended in one of the five outcomes: cache
\* hit, error, compliant, fined, low confidence logged
FiveOutcomes ==
    LET r == LastResult
        seen == last.seen
    IN  \/ r.cached /\ seen.hit /\ seen.calls = 0 /\ r.error = None
        \/ r.error # None /\ ~r.cached /\ r.vehicle_status = None /\ ~r.fine_issued
        \/ /\ r.error = None /\ ~r.cached /\ r.vehicle_status = seen.status
           /\ seen.status # None
           /\ \/ is_compliant(seen.status[1]) /\ ~r.fine_issued /\ seen.logs = 1
              \/ ~is_compliant(seen.status[1]) /\ r.fine_issued /\ seen.fines = 1
              \/ /\ ~is_compliant(seen.status[1])
                 /\ r.confidence < MIN_FINE_CONFIDENCE
                 /\ ~r.fine_issued
                 /\ seen.logs = 1

\* The sixth outcome: a non-compliant status read at 0.9 or more for which
\* the fine policy gives the amount 0 is neither fined nor logged
ZeroAmountOutcome ==
    LET r == LastResult
        seen == last.seen
    IN  /\ r.error = None /\ ~r.cached /\ r.vehicle_status = seen.status
        /\ seen.status # None
        /\ ~is_compliant(seen.status[1])
        /\ r.confidence >= MIN_FINE_CONFIDENCE
        /\ calculate_fine(seen.status[1])[1] = 0
        /\ ~r.fine_issued
        /\ seen.fines = 0
        /\ seen.logs = 0

\* Every _process_plate call returns, with one ScanResult, and calls
\* check_vehicle at most once: a request that is at its plate number n + 1
\* gets to the result of that plate; a request starts to wait for the
\* Validator only from a lookup that missed, with no call made yet for the
\* plate; each return adds one ScanResult.
TerminatesOnce ==
    /\ \A p \in Procs, n \in 0..(MaxFrameLen - 1) :
          (pc[p] # "idle" /\ Len(results[p]) = n) ~> (pc[p] = "idle" \/ Len(results[p]) = n + 1)
    /\ [](\A p \in Procs : obs[p].calls <= 1)
    /\ [](JustCompleted => last.seen.calls <= 1)
    /\ [][\A p \in Procs :
            /\ (pc'[p] = "validating" /\ pc[p] # "validating") =>
                  /\ pc[p] \in { "idle", "lookup" }
                  /\ obs'[p].calls = 0
                  /\ ~obs'[p].hit
            /\ (pc[p] = "validating" /\ obs'[p] # obs[p]) => pc'[p] # "validating"
            /\ (pc[p] # "idle" /\ pc'[p] # "idle" /\ results'[p] # results[p]) =>
                  Len(results'[p]) = Len(results[p]) + 1
            /\ (pc[p] # "idle" /\ pc'[p] = "idle") =>
                  Len(last'.ret[1].results) = Len(results[p]) + 1
         ]_vars

C27_ErrorLeavesNoEntry ==
    (JustCompleted /\ LastResult.error # None) => ~last.seen.added

\* C28: the ScanResult of an observation has fine_issued = true, with the
\* amount set and no error, exactly when the observation committed a fine,
\* also when the refresh or the notification after the commit failed.
C28_FaithfulResult ==
    JustCompleted =>
        ((LastResult.fine_issued /\ LastResult.fine_amount # None /\ LastResult.error = None)
            <=> last.seen.fines = 1)

\* The fines of the plate issued no longer ago than the cooldown
RecentFines(plate_number) ==
    { i \in DOMAIN fines :
        /\ normalize_plate(fines[i].plate_number) = normalize_plate(plate_number)
        /\ now - fines[i].issued_at <= cooldown }

\* C29: an observation with confidence >= 0.9 that ends without an error
\* and with a non-compliant status for which the fine policy gives an amount
\* creates a fine, unless a fine of the plate was created within the
\* cooldown before; in particular it does so when the plate was sighted
\* below 0.9, and logged without a fine, within the cooldown before.
C29_NoFineLost ==
    (/\ JustCompleted
     /\ LastResult.error = None
     /\ LastResult.confidence >= MIN_FINE_CONFIDENCE
     /\ LastResult.vehicle_status # None
     /\ ~is_compliant(LastResult.vehicle_status[1])
     /\ calculate_fine(LastResult.vehicle_status[1])[1] > 0
     /\ \E j \in DOMAIN logs :
           /\ normalize_plate(logs[j].plate_number) = normalize_plate(LastResult.plate_number)
           /\ logs[j].confidence < MIN_FINE_CONFIDENCE
           /\ ~logs[j].fine_issued
           /\ now - logs[j].scanned_at <= cooldown) =>
        \/ last.seen.fines = 1
        \/ RecentFines(LastResult.plate_number) # { }


\* C30: PlateCache(cooldown_minutes = n) has a cooldown of exactly n minutes
\* for every integer n >= 0 passed, and the configured default only when the
\* argument is omitted; no step changes the cooldown afterwards.
C30_CooldownHonoured ==
    /\ [](last.op = "init" =>
            LET cooldown_minutes == last.ret[1].cooldown_minutes
            IN  cooldown = IF cooldown_minutes = None
                           THEN CACHE_COOLDOWN_MIN
                           ELSE cooldown_minutes[1])
    /\ [][cooldown' = cooldown]_vars

====
